---- MODULE Spec2Model ----
(***************************************************************************)
(* Model of robot_framework/process.py: the monthly AKBO run.              *)
(*                                                                         *)
(*   process = get_email_attachment ; read_excel_file ;                    *)
(*             get_address_changes ; calculate_difference ;                *)
(*             send_email ; clear_email_folder                             *)
(*                                                                         *)
(* Every loop iteration is one step, so that the wall clock and the mail   *)
(* folder (both outside the program) can change between two iterations.    *)
(*                                                                         *)
(* Encodings.  Time is counted in ticks, TicksPerDay ticks to a day: a     *)
(* datetime is a number of ticks, a date a number of days.  An optional    *)
(* value (a cell that may be empty, a function that may return None) is    *)
(* <<>> for None and <<v>> for v.  A text cell holds a string, and the     *)
(* string None stands for an empty text cell.  A file name is a sequence   *)
(* of characters.                                                          *)
(***************************************************************************)
EXTENDS Integers, Sequences, FiniteSets, TLC

VARIABLES
    pc,            \* the statement of process() that runs next
    error,         \* the exception that ended the run: [stage, exc]
    clock,         \* the wall clock, in ticks
    folder,        \* the emails in Indbakke/AKBO
    deleted,       \* ids of the emails deleted from the folder
    arrivals,      \* number of emails that arrived during the run
    excel_source,  \* the workbook stored in every .XLSX attachment
    excel_file,    \* get_email_attachment's result (optional)
    read_email,    \* id of the email whose attachment was read (optional)
    columns,       \* row 1 of the active sheet
    wb,            \* rows 2.. of the active sheet
    row_index,     \* the loop variable of the running loop
    log,           \* what the loops did, in order
    sent,          \* the reports handed to the SMTP server
    cursor,        \* look_up_address_change alone: the query's result set
    looked_up      \* look_up_address_change alone: the value it returned

vars == <<pc, error, clock, folder, deleted, arrivals, excel_source, excel_file,
          read_email, columns, wb, row_index, log, sent, cursor, looked_up>>

-----------------------------------------------------------------------------
(* Bounds of the model *)

MaxRows == 2

MaxHist == 3

MaxEmails == 2

MaxTicks == 1

MaxArrivals == 1

TicksPerDay == 2

(* Program constants *)

RecentDays == 90

MinDifference == 89

-----------------------------------------------------------------------------
(* Values *)

None == "None"

NoValue == <<>>

Some(v) == <<v>>

NoError == [stage |-> "", exc |-> ""]

Raised(stage, exc) == [stage |-> stage, exc |-> exc]

\* Python truthiness of a text cell: None and '' are false.
Truthy(v) == v # None /\ v # ""

\* timedelta.days of a difference of two datetimes
days(delta) == delta \div TicksPerDay

\* datetime.date()
date(t) == t \div TicksPerDay

Datetime(t) == [type |-> "datetime", value |-> t]

Text == [type |-> "str", value |-> 0]

\* str.endswith
endswith(name, suffix) ==
    /\ Len(name) >= Len(suffix)
    /\ SubSeq(name, Len(name) - Len(suffix) + 1, Len(name)) = suffix

DotXLSX == <<".", "X", "L", "S", "X">>

RequiredColumns == <<"CPR", "Beloeb", "Udbetalingsdato", "Aftale type", "RIM aftaletype">>

\* list.index succeeds
HasColumn(cols, name) == \E i \in 1..Len(cols) : cols[i] = name

\* ws.max_row: the header row plus the data rows
max_row(ws) == Len(ws) + 1

delete_rows_zero_based(ws, idx) ==
    IF idx <= Len(ws)
    THEN [k \in 1..(Len(ws) - 1) |-> IF k < idx THEN ws[k] ELSE ws[k + 1]]
    ELSE ws

\* ws.delete_rows(idx): sheet row idx is data row idx - 1
delete_rows(ws, idx) ==
    [k \in 1..(Len(ws) - 1) |-> IF k < idx - 1 THEN ws[k] ELSE ws[k + 1]]

\* ws.cell(row_index, column).value
cell(ws, idx) == ws[idx - 1]

-----------------------------------------------------------------------------
(* The inputs of a run *)

ClockStart == 200 * TicksPerDay

\* exactly RecentDays days before the start of the run
DatoBoundary == ClockStart - RecentDays * TicksPerDay

\* The rows a sheet is made of; Beloeb is filled in per sheet.  A payment of
\* more than 90 days ago; one that is 90 days old one tick after the start of
\* the run; a row with an agreement and a text for a date; a row with RIM
\* aftaletype IN; a row without agreement and with a text for a date.
RowKinds ==
    { [CPR |-> "c1", Aftaletype |-> None, RIM |-> None,
       Udbetalingsdato |-> Datetime(DatoBoundary - 1)],
      [CPR |-> "c2", Aftaletype |-> "", RIM |-> "UD",
       Udbetalingsdato |-> Datetime(DatoBoundary + 1)],
      [CPR |-> "c3", Aftaletype |-> "X", RIM |-> None,
       Udbetalingsdato |-> Text],
      [CPR |-> "c3", Aftaletype |-> None, RIM |-> "IN",
       Udbetalingsdato |-> Datetime(DatoBoundary - 1)],
      [CPR |-> "c2", Aftaletype |-> None, RIM |-> None,
       Udbetalingsdato |-> Text] }

\* A data row as openpyxl holds it; the two derived columns start empty.
MakeRow(kind, n) ==
    [CPR |-> kind.CPR, Beloeb |-> n, Udbetalingsdato |-> kind.Udbetalingsdato,
     Aftaletype |-> kind.Aftaletype, RIM |-> kind.RIM,
     Adresseaendringsdato |-> NoValue, Difference |-> NoValue]

Sheets ==
    UNION { { [i \in 1..n |-> MakeRow(ks[i], i)] : ks \in [1..n -> RowKinds] } :
            n \in 0..MaxRows }

WithoutColumn(cols, i) == [k \in 1..(Len(cols) - 1) |-> IF k < i THEN cols[k] ELSE cols[k + 1]]

Headers ==
    {RequiredColumns} \cup
    { WithoutColumn(RequiredColumns, i) : i \in 1..Len(RequiredColumns) }

Workbooks == { [columns |-> h, rows |-> r] : h \in Headers, r \in Sheets }

ReportName == <<"r", ".", "X", "L", "S", "X">>

AttachmentLists ==
    { <<>>,
      <<ReportName>>,
      <<<<"r", ".", "x", "l", "s", "x">>>>,
      <<<<"r", ".", "P", "D", "F">>>>,
      <<ReportName, ReportName>> }

Email(i, atts) == [id |-> i, attachments |-> atts]

\* The folder at the start: empty, one email with any attachments, or several
\* emails (whose attachments no statement of the program looks at).
Folders ==
    {{}} \cup
    { {Email(1, a)} : a \in AttachmentLists } \cup
    { { Email(i, <<ReportName>>) : i \in 1..n } : n \in 2..MaxEmails }

\* The address histories the data warehouse can answer with: DatoFra and
\* Adressenoegle, ORDER BY DatoFra DESC.
HistoryDates == { date(DatoBoundary) + MinDifference + d : d \in {-2, -1, 0} }

AddressKeys == {"A", "B"}

Entries == [DatoFra : HistoryDates, Adressenoegle : AddressKeys]

Histories ==
    UNION { { h \in [1..n -> Entries] :
                \A i \in 1..(n - 1) : h[i].DatoFra >= h[i + 1].DatoFra } :
            n \in 0..MaxHist }

\* cursor.rowcount after a SELECT: the number of rows, or -1 when the driver
\* does not know it.
Rowcounts(rows) == {Len(rows), -1}

-----------------------------------------------------------------------------
(* The pure parts of the program *)

after_clear_before_send(stage) ==
    CASE stage = "get_email_attachment" -> "read_excel_file"
      [] stage = "read_excel_file" -> "get_address_changes"
      [] stage = "get_address_changes" -> "calculate_difference"
      [] stage = "calculate_difference" -> "clear_email_folder"
      [] stage = "clear_email_folder" -> "send_email"
      [] stage = "send_email" -> "done"

\* process(): the statement that follows a statement that returned
after(stage) ==
    CASE stage = "get_email_attachment" -> "read_excel_file"
      [] stage = "read_excel_file" -> "get_address_changes"
      [] stage = "get_address_changes" -> "calculate_difference"
      [] stage = "calculate_difference" -> "send_email"
      [] stage = "send_email" -> "clear_email_folder"
      [] stage = "clear_email_folder" -> "done"

\* get_email_attachment: len(emails) != 1
unexpected_emails(emails) == Cardinality(emails) # 1

unexpected_attachments_none_only(attachments) == Len(attachments) < 1

\* get_email_attachment: len(attachments) != 1
unexpected_attachments(attachments) == Len(attachments) # 1

\* get_email_attachment: not attachments[0].name.endswith(".XLSX")
unexpected_name(name) == ~endswith(name, DotXLSX)

\* read_excel_file: one of the five columns.index calls raises ValueError
missing_column(cols) == \E i \in 1..Len(RequiredColumns) : ~HasColumn(cols, RequiredColumns[i])

\* read_excel_file: current_date - dato is evaluated (the two tests before it
\* are false) and dato is no datetime
filter_raises(row) ==
    /\ ~Truthy(row.Aftaletype)
    /\ row.RIM # "IN"
    /\ row.Udbetalingsdato.type # "datetime"

should_delete_ignoring_rim(row, current_date) ==
    \/ Truthy(row.Aftaletype)
    \/ days(current_date - row.Udbetalingsdato.value) < RecentDays

\* read_excel_file: the condition of the if, for a row that does not raise
should_delete(row, current_date) ==
    \/ Truthy(row.Aftaletype)
    \/ row.RIM = "IN"
    \/ days(current_date - row.Udbetalingsdato.value) < RecentDays

lookup_last_row_exclusive(ws) == max_row(ws) - 1

\* get_address_changes: the last value of range(2, ws.max_row+1)
lookup_last_row(ws) == max_row(ws)

RECURSIVE walk_without_break(_, _, _, _)
walk_without_break(rows, i, address_key, date_from) ==
    IF i > Len(rows) THEN date_from
    ELSE IF rows[i].Adressenoegle = address_key
         THEN walk_without_break(rows, i + 1, address_key, rows[i].DatoFra)
         ELSE walk_without_break(rows, i + 1, address_key, date_from)

\* look_up_address_change: the for loop, from rows[i] on
RECURSIVE walk(_, _, _, _)
walk(rows, i, address_key, date_from) ==
    IF i > Len(rows) THEN date_from
    ELSE IF rows[i].Adressenoegle = address_key
         THEN walk(rows, i + 1, address_key, rows[i].DatoFra)
         ELSE date_from

\* look_up_address_change, after cursor.execute: None when rowcount is 0,
\* IndexError at rows[0] when rowcount is not 0 and there are no rows
look_up_address_change(rows, rowcount) ==
    IF rowcount = 0 THEN [raised |-> FALSE, value |-> NoValue]
    ELSE IF Len(rows) = 0 THEN [raised |-> TRUE, value |-> NoValue]
    ELSE [raised |-> FALSE,
          value |-> Some(walk(rows, 1, rows[1].Adressenoegle, rows[1].DatoFra))]

\* calculate_difference: diff.days, for a row with a change date
day_difference(row) == row.Adresseaendringsdato[1] - date(row.Udbetalingsdato.value)

below_threshold_inclusive(diff_days) == diff_days <= MinDifference

\* calculate_difference: diff.days < 89
below_threshold(diff_days) == diff_days < MinDifference

\* One entry of the log: the loop (op), the row it handled (its Beloeb and its
\* CPR), the clock value it sampled, the change date it read or wrote, and
\* whether it deleted the row.
\* What look_up_address_change can do when called: every result it has for a
\* history and a rowcount of the data warehouse.
LookupResults ==
    { look_up_address_change(rows, rowcount) :
        <<rows, rowcount>> \in UNION { {rows} \X Rowcounts(rows) : rows \in Histories } }

Event(op, row, now, changed, del) ==
    [op |-> op, row |-> row.Beloeb, cpr |-> row.CPR, now |-> now,
     date |-> changed, deleted |-> del]

-----------------------------------------------------------------------------
(* The state machine *)

mailVars == <<folder, deleted, arrivals>>

fileVars == <<excel_source, excel_file, read_email>>

sheetVars == <<columns, wb, row_index, log>>

lookupVars == <<cursor, looked_up>>

NoCursor == [rows |-> <<>>, rowcount |-> -1]

NotReturned == [raised |-> FALSE, value |-> NoValue]

Init ==
    /\ pc = "get_email_attachment"
    /\ error = NoError
    /\ clock = ClockStart
    /\ folder \in Folders
    /\ deleted = {}
    /\ arrivals = 0
    /\ excel_source \in Workbooks
    /\ excel_file = NoValue
    /\ read_email = NoValue
    /\ columns = <<>>
    /\ wb = <<>>
    /\ row_index = 0
    /\ log = <<>>
    /\ sent = <<>>
    /\ cursor = NoCursor
    /\ looked_up = NotReturned

Running == pc \notin {"done", "failed"}

\* An exception leaves process(): nothing after the raising statement runs.
Fail(stage, exc) ==
    /\ pc' = "failed"
    /\ error' = Raised(stage, exc)

\* The wall clock advances.
Tick ==
    /\ Running
    /\ clock < ClockStart + MaxTicks
    /\ clock' = clock + 1
    /\ UNCHANGED <<pc, error, mailVars, fileVars, sheetVars, sent, lookupVars>>

\* Somebody sends an email to the AKBO folder.
EmailArrives ==
    /\ Running
    /\ arrivals < MaxArrivals
    /\ arrivals' = arrivals + 1
    /\ folder' = folder \cup {Email(MaxEmails + arrivals + 1, <<ReportName>>)}
    /\ UNCHANGED <<pc, error, clock, deleted, fileVars, sheetVars, sent, lookupVars>>

get_email_attachment ==
    /\ pc = "get_email_attachment"
    /\ \/ /\ Fail("get_email_attachment", "GraphError")
          /\ UNCHANGED <<excel_file, read_email>>
       \/ /\ unexpected_emails(folder)
          /\ Fail("get_email_attachment", "ValueError")
          /\ UNCHANGED <<excel_file, read_email>>
       \/ /\ ~unexpected_emails(folder)
          /\ \E email \in folder :
                IF \/ unexpected_attachments(email.attachments)
                   \/ unexpected_name(email.attachments[1])
                THEN /\ Fail("get_email_attachment", "ValueError")
                     /\ UNCHANGED <<excel_file, read_email>>
                ELSE /\ excel_file' = Some(excel_source)
                     /\ read_email' = Some(email.id)
                     /\ pc' = after("get_email_attachment")
                     /\ UNCHANGED error
    /\ UNCHANGED <<clock, mailVars, excel_source, sheetVars, sent, lookupVars>>

\* read_excel_file up to the loop
read_excel_file ==
    /\ pc = "read_excel_file"
    /\ IF missing_column(excel_file[1].columns)
       THEN /\ Fail("read_excel_file", "ValueError")
            /\ UNCHANGED <<columns, wb, row_index>>
       ELSE /\ columns' = excel_file[1].columns
            /\ wb' = excel_file[1].rows
            /\ row_index' = max_row(excel_file[1].rows)
            /\ pc' = "read_excel_file_loop"
            /\ UNCHANGED error
    /\ UNCHANGED <<clock, mailVars, fileVars, log, sent, lookupVars>>

\* read_excel_file: one iteration of the loop, or its end
read_excel_file_loop ==
    /\ pc = "read_excel_file_loop"
    /\ IF row_index > 1
       THEN LET row == cell(wb, row_index)
                current_date == clock
            IN  IF filter_raises(row)
                THEN /\ Fail("read_excel_file", "TypeError")
                     /\ UNCHANGED <<wb, row_index, log>>
                ELSE /\ wb' = IF should_delete(row, current_date)
                              THEN delete_rows(wb, row_index)
                              ELSE wb
                     /\ log' = Append(log, Event("filter", row, current_date, NoValue,
                                                 should_delete(row, current_date)))
                     /\ row_index' = row_index - 1
                     /\ UNCHANGED <<pc, error>>
       ELSE /\ pc' = after("read_excel_file")
            /\ UNCHANGED <<error, wb, row_index, log>>
    /\ UNCHANGED <<clock, mailVars, fileVars, columns, sent, lookupVars>>

\* get_address_changes up to the loop
get_address_changes ==
    /\ pc = "get_address_changes"
    /\ columns' = Append(columns, "Adresseaendringsdato")
    /\ \/ /\ Fail("get_address_changes", "pyodbc.Error")
          /\ UNCHANGED row_index
       \/ /\ row_index' = 2
          /\ pc' = "get_address_changes_loop"
          /\ UNCHANGED error
    /\ UNCHANGED <<clock, mailVars, fileVars, wb, log, sent, lookupVars>>

\* get_address_changes: one iteration of the loop, or its end
get_address_changes_loop ==
    /\ pc = "get_address_changes_loop"
    /\ IF row_index <= lookup_last_row(wb)
       THEN LET row == cell(wb, row_index)
            IN  \/ /\ Fail("get_address_changes", "pyodbc.Error")
                   /\ UNCHANGED <<wb, row_index, log>>
                \/ \E found \in LookupResults :
                      /\ log' = Append(log, Event("query", row, 0, found.value, FALSE))
                      /\ IF found.raised
                         THEN /\ Fail("get_address_changes", "IndexError")
                              /\ UNCHANGED <<wb, row_index>>
                         ELSE /\ wb' = IF found.value # NoValue
                                       THEN [wb EXCEPT ![row_index - 1].Adresseaendringsdato =
                                                 found.value]
                                       ELSE wb
                              /\ row_index' = row_index + 1
                              /\ UNCHANGED <<pc, error>>
       ELSE /\ pc' = after("get_address_changes")
            /\ UNCHANGED <<error, wb, row_index, log>>
    /\ UNCHANGED <<clock, mailVars, fileVars, columns, sent, lookupVars>>

\* calculate_difference up to the loop
calculate_difference ==
    /\ pc = "calculate_difference"
    /\ columns' = Append(columns, "Difference")
    /\ row_index' = max_row(wb)
    /\ pc' = "calculate_difference_loop"
    /\ UNCHANGED <<error, clock, mailVars, fileVars, wb, log, sent, lookupVars>>

\* calculate_difference: one iteration of the loop, or its end
calculate_difference_loop ==
    /\ pc = "calculate_difference_loop"
    /\ IF row_index > 1
       THEN LET row == cell(wb, row_index)
            IN  IF row.Adresseaendringsdato = NoValue
                THEN /\ Fail("calculate_difference", "TypeError")
                     /\ UNCHANGED <<wb, row_index, log>>
                ELSE /\ wb' = IF below_threshold(day_difference(row))
                              THEN delete_rows(wb, row_index)
                              ELSE [wb EXCEPT ![row_index - 1].Difference =
                                        Some(day_difference(row))]
                     /\ log' = Append(log, Event("diff", row, 0, row.Adresseaendringsdato,
                                                 below_threshold(day_difference(row))))
                     /\ row_index' = row_index - 1
                     /\ UNCHANGED <<pc, error>>
       ELSE /\ pc' = after("calculate_difference")
            /\ UNCHANGED <<error, wb, row_index, log>>
    /\ UNCHANGED <<clock, mailVars, fileVars, columns, sent, lookupVars>>

send_email ==
    /\ pc = "send_email"
    /\ \/ /\ Fail("send_email", "SMTPException")
          /\ UNCHANGED sent
       \/ /\ sent' = Append(sent, [columns |-> columns, rows |-> wb])
          /\ pc' = after("send_email")
          /\ UNCHANGED error
    /\ UNCHANGED <<clock, mailVars, fileVars, sheetVars, lookupVars>>

\* clear_email_folder: every email of the folder as it is now is deleted,
\* unless a call to the Graph API raises on the way
clear_email_folder ==
    /\ pc = "clear_email_folder"
    /\ \E gone \in SUBSET folder :
          /\ folder' = folder \ gone
          /\ deleted' = deleted \cup { email.id : email \in gone }
          /\ IF gone = folder
             THEN /\ pc' = after("clear_email_folder")
                  /\ UNCHANGED error
             ELSE Fail("clear_email_folder", "GraphError")
    /\ UNCHANGED <<clock, arrivals, fileVars, sheetVars, sent, lookupVars>>

Next ==
    \/ Tick
    \/ EmailArrives
    \/ get_email_attachment
    \/ read_excel_file
    \/ read_excel_file_loop
    \/ get_address_changes
    \/ get_address_changes_loop
    \/ calculate_difference
    \/ calculate_difference_loop
    \/ send_email
    \/ clear_email_folder

Spec == Init /\ [][Next]_vars

-----------------------------------------------------------------------------
(* look_up_address_change on its own: any history, any rowcount *)

InitLookup ==
    /\ pc = "look_up_address_change"
    /\ error = NoError
    /\ clock = ClockStart
    /\ folder = {}
    /\ deleted = {}
    /\ arrivals = 0
    /\ excel_source = [columns |-> RequiredColumns, rows |-> <<>>]
    /\ excel_file = NoValue
    /\ read_email = NoValue
    /\ columns = <<>>
    /\ wb = <<>>
    /\ row_index = 0
    /\ log = <<>>
    /\ sent = <<>>
    /\ cursor \in UNION { { [rows |-> rows, rowcount |-> rowcount] :
                              rowcount \in Rowcounts(rows) } : rows \in Histories }
    /\ looked_up = NotReturned

LookUp ==
    /\ pc = "look_up_address_change"
    /\ looked_up' = look_up_address_change(cursor.rows, cursor.rowcount)
    /\ pc' = "returned"
    /\ UNCHANGED <<error, clock, mailVars, fileVars, sheetVars, sent, cursor>>

NextLookup == LookUp

SpecLookup == InitLookup /\ [][NextLookup]_vars

-----------------------------------------------------------------------------
(* What the claims speak about *)

\* the data rows of the sheet as the attachment held them
Original == excel_file[1].rows

EventsOf(op) == SelectSeq(log, LAMBDA e : e.op = op)

\* The three eligibility predicates, for the clock value now.
Marked(row, now) ==
    \/ row.Aftaletype \notin {None, ""}
    \/ row.RIM = "IN"
    \/ /\ row.Udbetalingsdato.type = "datetime"
       /\ now - row.Udbetalingsdato.value < RecentDays * TicksPerDay

\* C1: while the deletion loop of read_excel_file runs and when it has ended,
\* the rows visited so far are the last rows of the input, each once, from the
\* last one upwards; the sheet holds the rows not yet visited followed by the
\* visited rows that no eligibility predicate marked (at the clock value read
\* for that row), in their original order.  At the end every row was visited
\* and exactly the unmarked rows are left.
C1_ReverseDeletion ==
    pc \in {"read_excel_file_loop", "get_address_changes"} =>
        LET visits == EventsOf("filter")
            N == Len(Original)
            visitOf(n) == visits[N - n + 1]
            left(row) ==
                \/ row.Beloeb < row_index
                \/ ~Marked(row, visitOf(row.Beloeb).now)
        IN  /\ Len(visits) = N - (row_index - 1)
            /\ \A k \in 1..Len(visits) : visits[k].row = N - k + 1
            /\ \A k \in 1..Len(visits) :
                  visits[k].deleted = Marked(Original[visits[k].row], visits[k].now)
            /\ wb = SelectSeq(Original, left)
            /\ pc = "get_address_changes" => row_index = 1

\* A sheet of at least two rows lost a row other than its last one and kept
\* another one.
C1_Witness ==
    /\ pc = "get_address_changes"
    /\ Len(Original) >= 2
    /\ Len(wb) >= 1
    /\ \E k \in 1..Len(log) : log[k].deleted /\ log[k].row < Len(Original)

\* the number of leading entries of rows that carry the key of rows[1]
LeadingRun(rows) ==
    CHOOSE n \in 1..Len(rows) :
        /\ \A i \in 1..n : rows[i].Adressenoegle = rows[1].Adressenoegle
        /\ n < Len(rows) => rows[n + 1].Adressenoegle # rows[1].Adressenoegle

NewestDay == date(DatoBoundary) + MinDifference

ExampleHistory ==
    << [DatoFra |-> NewestDay, Adressenoegle |-> "A"],
       [DatoFra |-> NewestDay - 1, Adressenoegle |-> "A"],
       [DatoFra |-> NewestDay - 2, Adressenoegle |-> "B"] >>

\* C2: for a non-empty history, newest first, look_up_address_change returns
\* the DatoFra of the last entry of the leading run of entries that carry the
\* newest entry's key, and so of the only entry of a one-entry history.
C2_StartOfLeadingRun ==
    (pc = "returned" /\ Len(cursor.rows) > 0) =>
        /\ ~looked_up.raised
        /\ looked_up.value = <<cursor.rows[LeadingRun(cursor.rows)].DatoFra>>

\* The history of the example, A, A, B: the date of the second entry.
C2_Witness ==
    /\ pc = "returned"
    /\ cursor.rows = ExampleHistory
    /\ looked_up.value = <<NewestDay - 1>>

\* C3: a person without address history is no error: calculate_difference
\* deletes the row whose change date is unset and the run goes on, so no run
\* ends with the TypeError of a subtraction from None in calculate_difference.
C3_EmptyHistoryIsNoError ==
    ~(pc = "failed" /\ error = Raised("calculate_difference", "TypeError"))

\* calculate_difference has returned
DifferenceReturned ==
    \/ pc \in {"send_email", "clear_email_folder", "done"}
    \/ pc = "failed" /\ error.stage \in {"send_email", "clear_email_folder"}

\* whole days from the date part of a row's Udbetalingsdato to the day changed
WholeDays(row, changed) == changed - (row.Udbetalingsdato.value \div TicksPerDay)

\* C4: when calculate_difference has returned, every row left carries a change
\* date and a Difference equal to the whole days from the date part of its
\* Udbetalingsdato to that change date, and the Difference is at least 89; and
\* a row that came to the loop with a change date was deleted there exactly
\* when these whole days were fewer than 89.
C4_DifferenceAtLeast89 ==
    DifferenceReturned =>
        /\ \A k \in 1..Len(wb) :
              /\ wb[k].Adresseaendringsdato # NoValue
              /\ wb[k].Difference = <<WholeDays(wb[k], wb[k].Adresseaendringsdato[1])>>
              /\ wb[k].Difference[1] >= MinDifference
        /\ \A i \in 1..Len(log) :
              log[i].op = "diff" =>
                  /\ log[i].date # NoValue
                  /\ log[i].deleted =
                         (WholeDays(Original[log[i].row], log[i].date[1]) < MinDifference)
                  /\ log[i].deleted = (\A k \in 1..Len(wb) : wb[k].Beloeb # log[i].row)

\* A row with a difference of exactly 89 days was kept and a row with a
\* difference of 88 days was deleted.
C4_Witness ==
    /\ DifferenceReturned
    /\ \E k \in 1..Len(wb) : wb[k].Difference = <<MinDifference>>
    /\ \E i \in 1..Len(log) :
          /\ log[i].op = "diff"
          /\ log[i].deleted
          /\ WholeDays(Original[log[i].row], log[i].date[1]) = MinDifference - 1

\* C5: an email is deleted only after a report was sent, and a run that an
\* exception ended before clear_email_folder has sent no report and has
\* deleted no email.
C5_ClearOnlyAfterSend ==
    /\ deleted # {} => Len(sent) >= 1
    /\ (pc = "failed" /\ error.stage # "clear_email_folder") =>
          /\ sent = <<>>
          /\ deleted = {}

\* A run sent its report and then cleared the folder.
C5_Witness ==
    /\ pc = "done"
    /\ Len(sent) = 1
    /\ deleted # {}

\* C6: the clock is read once per run, so two rows with the same
\* Udbetalingsdato, Aftale type and RIM aftaletype get the same decision.
C6_SameRowsSameDecision ==
    \A i, j \in 1..Len(log) :
        (/\ log[i].op = "filter"
         /\ log[j].op = "filter"
         /\ Original[log[i].row].Udbetalingsdato = Original[log[j].row].Udbetalingsdato
         /\ Original[log[i].row].Aftaletype = Original[log[j].row].Aftaletype
         /\ Original[log[i].row].RIM = Original[log[j].row].RIM)
        => log[i].deleted = log[j].deleted

SourceColumns(row) ==
    <<row.CPR, row.Beloeb, row.Udbetalingsdato, row.Aftaletype, row.RIM>>

\* C7: every data row of a report that was sent has an empty Aftale type, a
\* RIM aftaletype other than IN, an Udbetalingsdato at least 90 days before
\* the present clock value and a Difference of at least 89; it is a row the
\* eligibility filter kept, its source columns are those of the input, and the
\* rows of the report are in the order of the input.
C7_ReportRows ==
    \A n \in 1..Len(sent) :
        LET rows == sent[n].rows
        IN  /\ \A k \in 1..Len(rows) :
                  /\ rows[k].Aftaletype \in {None, ""}
                  /\ rows[k].RIM # "IN"
                  /\ rows[k].Udbetalingsdato.type = "datetime"
                  /\ clock - rows[k].Udbetalingsdato.value >= RecentDays * TicksPerDay
                  /\ rows[k].Difference # NoValue
                  /\ rows[k].Difference[1] >= MinDifference
                  /\ rows[k].Beloeb \in 1..Len(Original)
                  /\ SourceColumns(rows[k]) = SourceColumns(Original[rows[k].Beloeb])
                  /\ \E i \in 1..Len(log) :
                        /\ log[i].op = "filter"
                        /\ log[i].row = rows[k].Beloeb
                        /\ ~log[i].deleted
            /\ \A k \in 1..(Len(rows) - 1) : rows[k].Beloeb < rows[k + 1].Beloeb

\* A report with a row was sent for an input that had more rows.
C7_Witness ==
    /\ Len(sent) = 1
    /\ Len(sent[1].rows) >= 1
    /\ Len(sent[1].rows) < Len(Original)

\* get_address_changes has returned
LookupsReturned ==
    \/ pc \in {"calculate_difference", "calculate_difference_loop"}
    \/ DifferenceReturned
    \/ pc = "failed" /\ error.stage = "calculate_difference"

\* the Beloeb of the rows the eligibility filter kept, in the order of the input
Survivors ==
    LET kept(row) ==
            \E i \in 1..Len(log) :
                log[i].op = "filter" /\ log[i].row = row.Beloeb /\ ~log[i].deleted
        rows == SelectSeq(Original, kept)
    IN  [k \in 1..Len(rows) |-> rows[k].Beloeb]

\* C8: the queries sent to the address history so far are, in this order, one
\* for each of the first rows that the eligibility filter kept, with the CPR of
\* that row; when get_address_changes has returned there is one for every
\* such row; and no query follows the computation of a day difference.
C8_OneQueryPerSurvivor ==
    excel_file # NoValue =>
        LET queries == EventsOf("query")
        IN  /\ Len(queries) <= Len(Survivors)
            /\ \A k \in 1..Len(queries) :
                  /\ queries[k].row = Survivors[k]
                  /\ queries[k].cpr = Original[Survivors[k]].CPR
            /\ LookupsReturned => Len(queries) = Len(Survivors)
            /\ \A i, j \in 1..Len(log) :
                  (i < j /\ log[i].op = "diff") => log[j].op # "query"

\* Two rows were kept and queried, the upper one first, and the first
\* difference has been computed.
C8_Witness ==
    /\ excel_file # NoValue
    /\ Len(EventsOf("query")) = 2
    /\ EventsOf("query")[1].row < EventsOf("query")[2].row
    /\ Len(EventsOf("diff")) >= 1

\* the file name ends with the five characters .XLSX
IsXLSXName(name) ==
    /\ Len(name) >= 5
    /\ name[Len(name) - 4] = "."
    /\ name[Len(name) - 3] = "X"
    /\ name[Len(name) - 2] = "L"
    /\ name[Len(name) - 1] = "S"
    /\ name[Len(name)] = "X"

\* the folder holds one email with one attachment whose name ends with .XLSX
ExpectedFolder ==
    /\ Cardinality(folder) = 1
    /\ \A email \in folder :
          /\ Len(email.attachments) = 1
          /\ IsXLSXName(email.attachments[1])

\* C9: get_email_attachment returns only when the folder holds exactly one
\* email with exactly one attachment whose name ends with .XLSX, and then it
\* returns that attachment; in every other case it raises, and a run that
\* get_email_attachment ended has processed no row, sent no report and
\* deleted no email.
C9_OnlyTheExpectedEmail ==
    /\ [][ pc = "get_email_attachment" /\ pc' # "get_email_attachment" =>
              /\ pc' = "read_excel_file" =>
                    /\ ExpectedFolder
                    /\ \A email \in folder : read_email' = <<email.id>>
              /\ ~ExpectedFolder =>
                    /\ pc' = "failed"
                    /\ error'.stage = "get_email_attachment"
         ]_vars
    /\ [](pc = "failed" /\ error.stage = "get_email_attachment" =>
              /\ wb = <<>>
              /\ log = <<>>
              /\ sent = <<>>
              /\ deleted = {})

\* The run was ended because the only email carried two attachments.
C9_Witness ==
    /\ pc = "failed"
    /\ error = Raised("get_email_attachment", "ValueError")
    /\ Cardinality(folder) = 1
    /\ \A email \in folder : Len(email.attachments) = 2

\* C10: every email that was deleted is the email whose attachment was read.
C10_OnlyTheProcessedEmailIsDeleted ==
    \A id \in deleted : read_email = <<id>>

====
